---------------------------- MODULE Spec2Model ----------------------------
(***************************************************************************)
(* A model of tsuru (src/src/main.rs): the decoder of KOSPI 200 quote      *)
(* packets (QuotePacket::try_from_packet, try_from_udp_payload) and the    *)
(* two reordering loops built on it (with_vec, with_heap).                 *)
(*                                                                         *)
(* Bytes are naturals 0..255, a &[u8] or a &str is a sequence of bytes     *)
(* (Rust's 0-based offset k is position k + 1 here).  A DateTime<Utc> is   *)
(* kept the way chrono keeps it: a day number (days since 1970-01-01), the *)
(* second of that day and the sub-second part, here in microseconds.       *)
(***************************************************************************)
EXTENDS Integers, Sequences, FiniteSets, TLC

VARIABLES
    debug_assertions, \* the build: TRUE for a debug build, FALSE for --release
    capture,          \* what next_packet() has returned so far, in file order
    vec,              \* the run of with_vec:  [pc, idx, window, out]
    heap,             \* the run of with_heap: [pc, idx, window, out]
    packet,           \* the argument of a single call of try_from_packet
    decoded           \* what that call returned

vars == <<debug_assertions, capture, vec, heap, packet, decoded>>

(***************************************************************************)
(* Bounds of the model.                                                    *)
(***************************************************************************)
\* The longest capture file: the number of packets before next_packet() fails.
MaxFrames == 3

(***************************************************************************)
(* Results: Rust's Option<Result<T, &'static str>>, and a panic.           *)
(***************************************************************************)
None == [tag |-> "None", val |-> <<>>, err |-> ""]
Ok(v) == [tag |-> "Ok", val |-> v, err |-> ""]
Err(e) == [tag |-> "Err", val |-> <<>>, err |-> e]
Panic(e) == [tag |-> "Panic", val |-> <<>>, err |-> e]

DATA_INFO_MARKET == <<66, 54, 48, 51, 52>>   \* b"B6034"
DATE_ERROR == "Invalid date"
PARSE_INT_ERROR == "Cannot parse number"
UTF8_ERROR == "Invalid UTF-8"

(***************************************************************************)
(* chrono.                                                                 *)
(***************************************************************************)
\* TimeDelta::seconds(3)
MAX_DELAY == 3

\* NaiveDate::MIN and NaiveDate::MAX of chrono 0.4.38 (-262143-01-01 and
\* 262142-12-31) as day numbers.
MIN_DATE == -96465293
MAX_DATE == 95026236

DateTime(date, secs, micros) == [date |-> date, secs |-> secs, micros |-> micros]

\* a < b and a <= b of DateTime<Utc>
DtLess(a, b) ==
    \/ a.date < b.date
    \/ a.date = b.date /\ a.secs < b.secs
    \/ a.date = b.date /\ a.secs = b.secs /\ a.micros < b.micros

DtLeq(a, b) == ~DtLess(b, a)

\* DateTime + TimeDelta::seconds(d), 0 <= d < 86400
DtAddSecs(a, d) ==
    IF a.secs + d >= 86400
    THEN DateTime(a.date + 1, a.secs + d - 86400, a.micros)
    ELSE DateTime(a.date, a.secs + d, a.micros)

\* DateTime::from_timestamp_micros(tv_sec * 1_000_000 + tv_usec): tv_sec is
\* given as a day number and a second of that day (tv_sec = 86400 * tv_day +
\* tv_sod), tv_usec may exceed a second.  None when the date is out of
\* chrono's range.
from_timestamp_micros(ts) ==
    LET secs == ts.tv_sod + (ts.tv_usec \div 1000000)
        date == ts.tv_day + (secs \div 86400)
    IN  IF date < MIN_DATE \/ date > MAX_DATE
        THEN None
        ELSE Ok(DateTime(date, secs % 86400, ts.tv_usec % 1000000))

\* Faulty variant of and_hms_milli_korea: the time of day is taken as UTC,
\* and_local_timezone(korea) is forgotten.
and_hms_milli_utc(date, hours, minutes, seconds, milli) ==
    IF hours >= 24 \/ minutes >= 60 \/ seconds >= 60
       \/ (milli >= 1000 /\ seconds # 59) \/ milli >= 2000
    THEN None
    ELSE Ok(DateTime(date, hours * 3600 + minutes * 60 + seconds, milli * 1000))

\* NaiveDate::and_hms_milli_opt(hours, minutes, seconds, milli) on `date`,
\* .and_local_timezone(FixedOffset::east(9h)).single(), .with_timezone(&Utc):
\* the local time of day on that date, moved 9 hours back.
and_hms_milli_korea(date, hours, minutes, seconds, milli) ==
    IF hours >= 24 \/ minutes >= 60 \/ seconds >= 60
       \/ (milli >= 1000 /\ seconds # 59) \/ milli >= 2000
    THEN None
    ELSE LET local == hours * 3600 + minutes * 60 + seconds
             utc == local - 9 * 3600
             day == IF utc < 0 THEN date - 1 ELSE date
         IN  IF day < MIN_DATE
             THEN None
             ELSE Ok(DateTime(day, IF utc < 0 THEN utc + 86400 ELSE utc, milli * 1000))

(***************************************************************************)
(* Field codec: std::str::from_utf8 and u32::from_str_radix(_, 10).        *)
(***************************************************************************)
IsCont(c) == c >= 128 /\ c <= 191

\* The length of the UTF-8 sequence starting at b[i], or 0 when there is
\* no well-formed one.
Utf8Width(b, i) ==
    LET c == b[i]
        n == Len(b)
    IN  IF c < 128 THEN 1
        ELSE IF c >= 194 /\ c <= 223
        THEN IF i + 1 <= n /\ IsCont(b[i + 1]) THEN 2 ELSE 0
        ELSE IF c >= 224 /\ c <= 239
        THEN IF /\ i + 2 <= n
                /\ IsCont(b[i + 1]) /\ IsCont(b[i + 2])
                /\ (c = 224 => b[i + 1] >= 160)
                /\ (c = 237 => b[i + 1] <= 159)
             THEN 3 ELSE 0
        ELSE IF c >= 240 /\ c <= 244
        THEN IF /\ i + 3 <= n
                /\ IsCont(b[i + 1]) /\ IsCont(b[i + 2]) /\ IsCont(b[i + 3])
                /\ (c = 240 => b[i + 1] >= 144)
                /\ (c = 244 => b[i + 1] <= 143)
             THEN 4 ELSE 0
        ELSE 0

RECURSIVE Utf8ValidFrom(_, _)
Utf8ValidFrom(b, i) ==
    IF i > Len(b) THEN TRUE
    ELSE LET w == Utf8Width(b, i)
         IN  w > 0 /\ Utf8ValidFrom(b, i + w)

\* std::str::from_utf8(bytes).map_err(|_| UTF8_ERROR)
from_utf8(bytes) == IF Utf8ValidFrom(bytes, 1) THEN Ok(bytes) ELSE Err(UTF8_ERROR)

\* str::chars().count(): the bytes that start a character
CharCount(str) == Cardinality({i \in 1..Len(str) : ~IsCont(str[i])})

\* str::is_char_boundary(k), k a 0-based byte offset
is_char_boundary(str, k) ==
    k = 0 \/ k = Len(str) \/ (k < Len(str) /\ ~IsCont(str[k + 1]))

IsDigit(c) == c >= 48 /\ c <= 57

RECURSIVE DigitsValue(_, _)
DigitsValue(digits, acc) ==
    IF digits = <<>> THEN acc
    ELSE DigitsValue(Tail(digits), acc * 10 + (Head(digits) - 48))

\* u32::from_str_radix(str, 10).map_err(|_| PARSE_INT_ERROR): an optional
\* leading '+', then one to ten decimal digits; the windows parsed here are
\* at most 8 bytes, so the value never exceeds u32::MAX.
parse_u32(str) ==
    LET digits == IF Len(str) > 1 /\ str[1] = 43 THEN Tail(str) ELSE str
    IN  IF digits # <<>> /\ \A i \in 1..Len(digits) : IsDigit(digits[i])
        THEN Ok(DigitsValue(digits, 0))
        ELSE Err(PARSE_INT_ERROR)

\* &udp_payload[start..start + len]: a panic when the payload is shorter
Slice(bytes, start, len) ==
    IF start + len > Len(bytes)
    THEN Panic("range end index out of range for slice")
    ELSE Ok(SubSeq(bytes, start + 1, start + len))

\* parse(start, len) == parse_u32(from_utf8(&udp_payload[start..start + len])?)
parse(udp_payload, start, len) ==
    LET s == Slice(udp_payload, start, len)
    IN  IF s.tag # "Ok" THEN s
        ELSE LET u == from_utf8(s.val)
             IN  IF u.tag # "Ok" THEN u ELSE parse_u32(u.val)

parse_price(udp_payload, start) == parse(udp_payload, start, 5)
parse_quantity(udp_payload, start) == parse(udp_payload, start, 7)

\* &str[from..to] of a str: a panic when an end is not a character boundary
StrSlice(str, from, to) ==
    IF is_char_boundary(str, from) /\ is_char_boundary(str, to)
    THEN Ok(SubSeq(str, from + 1, to))
    ELSE Panic("byte index is not a char boundary")

\* IssueCode::try_from(&str): 12 bytes are required, then 12 characters are
\* taken with chars.next().unwrap()
IssueCode_try_from(str) ==
    IF Len(str) # 12 THEN Err("Must be 12 characters")
    ELSE IF CharCount(str) < 12
    THEN Panic("called Option::unwrap on a None value")
    ELSE Ok(str)

\* The first result of a sequence that is not Ok, or the last result.
RECURSIVE FirstFailure(_)
FirstFailure(results) ==
    IF Len(results) = 1 \/ Head(results).tag # "Ok"
    THEN Head(results)
    ELSE FirstFailure(Tail(results))

(***************************************************************************)
(* Quote decoder.                                                          *)
(***************************************************************************)
\* r? followed by F: F applied to the value of an Ok, anything else returned
Bind(r, F(_)) == IF r.tag # "Ok" THEN r ELSE F(r.val)

\* The twenty price and quantity windows in the order the code parses them
\* (main.rs 153-172): <<start, length>>, bids 1..5 then asks 1..5, each a
\* price followed by its quantity.
FIELD_WINDOWS ==
    << <<29, 5>>, <<34, 7>>, <<41, 5>>, <<46, 7>>, <<53, 5>>, <<58, 7>>,
       <<65, 5>>, <<70, 7>>, <<77, 5>>, <<82, 7>>,
       <<96, 5>>, <<101, 7>>, <<108, 5>>, <<113, 7>>, <<120, 5>>, <<125, 7>>,
       <<132, 5>>, <<137, 7>>, <<144, 5>>, <<149, 7>> >>

\* from_utf8(&udp_payload[5..17])?.try_into()?
issue_code_of(udp_payload) ==
    Bind(Slice(udp_payload, 5, 12),
         LAMBDA bytes : Bind(from_utf8(bytes), LAMBDA str : IssueCode_try_from(str)))

\* parse_u32(&accept_time[from..to])
parse_part(accept_time, from, to) ==
    Bind(StrSlice(accept_time, from, to), LAMBDA str : parse_u32(str))

\* The block computing accept_time (main.rs 174-191)
accept_time_of(packet_time, udp_payload) ==
    Bind(Slice(udp_payload, 206, 8), LAMBDA bytes :
    Bind(from_utf8(bytes), LAMBDA accept_time :
    Bind(parse_part(accept_time, 0, 2), LAMBDA hours :
    Bind(parse_part(accept_time, 2, 4), LAMBDA minutes :
    Bind(parse_part(accept_time, 4, 6), LAMBDA seconds :
    Bind(parse_part(accept_time, 6, 8), LAMBDA centis :
        LET t == and_hms_milli_korea(packet_time.date, hours, minutes, seconds,
                                     centis * 10)
        IN  IF t.tag = "Ok" THEN t ELSE Err(DATE_ERROR)))))))

\* debug_assert!(cond): a panic in a debug build, nothing in a release build
debug_assert(debug, cond) ==
    IF debug /\ ~cond THEN Panic("assertion failed") ELSE Ok(TRUE)

\* QuotePacket::try_from_udp_payload(packet_time, udp_payload), built with
\* (debug) or without debug assertions: Ok(quote), Err(..) or a panic.
try_from_udp_payload(debug, packet_time, udp_payload) ==
    LET n == Len(udp_payload)
        marked == debug_assert(debug,
                      n >= 5 /\ SubSeq(udp_payload, 1, 5) = DATA_INFO_MARKET)
        ended == debug_assert(debug, n > 0 /\ udp_payload[n] = 255)
        issue_code == issue_code_of(udp_payload)
        fields == [k \in 1..20 |->
                      parse(udp_payload, FIELD_WINDOWS[k][1], FIELD_WINDOWS[k][2])]
        accept_time == accept_time_of(packet_time, udp_payload)
        failure == FirstFailure(<<marked, ended, issue_code>> \o fields
                                \o <<accept_time>>)
    IN  IF failure.tag # "Ok" THEN failure
        ELSE IF debug /\ ~DtLess(accept_time.val, packet_time)
        THEN Panic("assertion failed: accept_time < packet_time")
        ELSE Ok([packet_time |-> packet_time,
                 accept_time |-> accept_time.val,
                 issue_code |-> issue_code.val,
                 bid_price |-> [k \in 1..5 |-> fields[2 * k - 1].val],
                 bid_quantity |-> [k \in 1..5 |-> fields[2 * k].val],
                 ask_price |-> [k \in 1..5 |-> fields[10 + 2 * k - 1].val],
                 ask_quantity |-> [k \in 1..5 |-> fields[10 + 2 * k].val]])

\* QuotePacket::try_from_packet(packet).  A packet is its header's timestamp
\* and what pnet makes of its data: the ethertype, the IPv4 next-level
\* protocol and the UDP payload ("Truncated" where EthernetPacket::new,
\* Ipv4Packet::new or UdpPacket::new returns None).
try_from_packet(debug, pkt) ==
    LET packet_time == from_timestamp_micros(pkt.ts)
    IN  IF pkt.ethertype # "Ipv4" \/ pkt.protocol # "Udp" THEN None
        ELSE IF Len(pkt.udp_payload) < 5
        THEN Panic("range end index 5 out of range for slice")
        ELSE IF SubSeq(pkt.udp_payload, 1, 5) # DATA_INFO_MARKET THEN None
        ELSE IF packet_time.tag # "Ok" THEN Err(DATE_ERROR)
        ELSE try_from_udp_payload(debug, packet_time.val, pkt.udp_payload)


(***************************************************************************)
(* with_vec: the window is a Vec<QuotePacket>.                             *)
(***************************************************************************)
\* <[QuotePacket]>::partition_point(pred): the binary search of the
\* standard library on positions lo..hi (0-based, hi excluded).
RECURSIVE partition_search(_, _, _, _)
partition_search(window, Pred(_), lo, hi) ==
    IF lo >= hi THEN lo
    ELSE LET mid == lo + ((hi - lo) \div 2)
         IN  IF Pred(window[mid + 1])
             THEN partition_search(window, Pred, mid + 1, hi)
             ELSE partition_search(window, Pred, lo, mid)

partition_point(window, Pred(_)) == partition_search(window, Pred, 0, Len(window))

\* Faulty variant of vec_is_old: MAX_DELAY is forgotten.
vec_is_old_no_delay(probe, quote_packet) ==
    DtLess(probe.accept_time, quote_packet.accept_time)

\* Faulty variant of vec_is_old: <= for <.
vec_is_old_or_at_delay(probe, quote_packet) ==
    DtLeq(DtAddSecs(probe.accept_time, MAX_DELAY), quote_packet.accept_time)

\* probe.accept_time + MAX_DELAY < quote_packet.accept_time (main.rs 282)
vec_is_old(probe, quote_packet) ==
    DtLess(DtAddSecs(probe.accept_time, MAX_DELAY), quote_packet.accept_time)

\* Faulty variant of vec_is_before: < for <=.
vec_is_strictly_before(probe, quote_packet) ==
    DtLess(probe.accept_time, quote_packet.accept_time)

\* probe.accept_time <= quote_packet.accept_time (main.rs 290)
vec_is_before(probe, quote_packet) ==
    DtLeq(probe.accept_time, quote_packet.accept_time)

\* The number of quotes window.drain(..) removes and prints for quote_packet
vec_flush_point(window, quote_packet) ==
    partition_point(window, LAMBDA probe : vec_is_old(probe, quote_packet))

\* Faulty variant of vec_insert: window.push(quote_packet), the sorted
\* position is not looked for.
vec_push(window, quote_packet) == Append(window, quote_packet)

\* window.insert(window.partition_point(..), quote_packet)
vec_insert(window, quote_packet) ==
    LET at == partition_point(window, LAMBDA probe : vec_is_before(probe, quote_packet))
    IN  SubSeq(window, 1, at) \o <<quote_packet>> \o SubSeq(window, at + 1, Len(window))

(***************************************************************************)
(* with_heap: the window is a BinaryHeap<OrdQuotePacket>, the binary       *)
(* max-heap of the standard library kept in a Vec (data[0] is the top).    *)
(***************************************************************************)
\* Faulty variant of OrdQuotePacket_cmp: .reverse() is forgotten, the heap is a
\* max-heap on accept_time.
OrdQuotePacket_cmp_not_reversed(self, other) ==
    IF DtLess(self.accept_time, other.accept_time) THEN "Less"
    ELSE IF DtLess(other.accept_time, self.accept_time) THEN "Greater"
    ELSE "Equal"

\* Ord for OrdQuotePacket: self.0.accept_time.cmp(&other.0.accept_time).reverse()
OrdQuotePacket_cmp(self, other) ==
    IF DtLess(self.accept_time, other.accept_time) THEN "Greater"
    ELSE IF DtLess(other.accept_time, self.accept_time) THEN "Less"
    ELSE "Equal"

\* self <= other, from partial_cmp
OrdQuotePacket_le(self, other) == OrdQuotePacket_cmp(self, other) # "Greater"

\* BinaryHeap::sift_up(start, pos) with `element` taken out of the hole at pos
RECURSIVE sift_up(_, _, _, _)
sift_up(data, start, pos, element) ==
    IF pos > start
    THEN LET parent == (pos - 1) \div 2
         IN  IF OrdQuotePacket_le(element, data[parent + 1])
             THEN [data EXCEPT ![pos + 1] = element]
             ELSE sift_up([data EXCEPT ![pos + 1] = data[parent + 1]],
                          start, parent, element)
    ELSE [data EXCEPT ![pos + 1] = element]

\* BinaryHeap::sift_down_to_bottom: the hole goes down to a leaf along the
\* greater children, then the element is sifted up from there.
RECURSIVE sift_down_to_bottom(_, _, _, _)
sift_down_to_bottom(data, start, pos, element) ==
    LET end == Len(data)
        child == 2 * pos + 1
    IN  IF end >= 2 /\ child <= end - 2
        THEN LET c == IF OrdQuotePacket_le(data[child + 1], data[child + 2])
                      THEN child + 1 ELSE child
             IN  sift_down_to_bottom([data EXCEPT ![pos + 1] = data[c + 1]],
                                     start, c, element)
        ELSE IF child = end - 1
        THEN sift_up([data EXCEPT ![pos + 1] = data[child + 1]], start, child, element)
        ELSE sift_up(data, start, pos, element)

\* BinaryHeap::push(item)
heap_push(data, item) == sift_up(Append(data, item), 0, Len(data), item)

\* BinaryHeap::peek(): the top, data[0]
heap_peek(data) == data[1]

\* BinaryHeap::pop() on a heap that is not empty: the heap left behind (the
\* last item is swapped into the top and sifted down); the item popped is
\* heap_peek(data).
heap_pop(data) ==
    LET rest == SubSeq(data, 1, Len(data) - 1)
    IN  IF rest = <<>> THEN rest
        ELSE sift_down_to_bottom(rest, 0, 0, data[Len(data)])

\* Faulty variant of heap_is_old: <= for <.
heap_is_old_or_at_delay(peek, quote_packet) ==
    DtLeq(DtAddSecs(peek.accept_time, MAX_DELAY), quote_packet.accept_time)

\* peek.0.accept_time + MAX_DELAY < quote_packet.accept_time (main.rs 311)
heap_is_old(peek, quote_packet) ==
    DtLess(DtAddSecs(peek.accept_time, MAX_DELAY), quote_packet.accept_time)

\* Faulty variant of heap_flush: an `if` for the `loop`, one quote at most
\* is popped.
heap_flush_once(data, printed, quote_packet) ==
    IF data # <<>> /\ heap_is_old(heap_peek(data), quote_packet)
    THEN <<heap_pop(data), Append(printed, heap_peek(data))>>
    ELSE <<data, printed>>

\* The flush loop of with_heap (main.rs 308-318): <<window left, quotes printed>>
RECURSIVE heap_flush(_, _, _)
heap_flush(data, printed, quote_packet) ==
    IF data # <<>> /\ heap_is_old(heap_peek(data), quote_packet)
    THEN heap_flush(heap_pop(data), Append(printed, heap_peek(data)), quote_packet)
    ELSE <<data, printed>>

\* Faulty variant of heap_drain: the heap is printed the way with_vec prints its
\* window, `for quote_packet in &window`, which visits data[0], data[1], ..
heap_drain_iter(data) == data

\* The final loop of with_heap (main.rs 326-328): the quotes popped, in order
RECURSIVE heap_drain(_)
heap_drain(data) ==
    IF data = <<>> THEN <<>>
    ELSE <<heap_peek(data)>> \o heap_drain(heap_pop(data))


(***************************************************************************)
(* The packets of the model.                                               *)
(***************************************************************************)
RECURSIVE Repeat(_, _)
Repeat(byte, n) == IF n = 0 THEN <<>> ELSE <<byte>> \o Repeat(byte, n - 1)

\* The ASCII digits of n, zero-padded to `width` characters
RECURSIVE Digits(_, _)
Digits(n, width) ==
    IF width = 0 THEN <<>> ELSE Append(Digits(n \div 10, width - 1), 48 + (n % 10))

\* Five <<price, quantity>> levels as 5 + 7 digits each
RECURSIVE Levels(_)
Levels(levels) ==
    IF levels = <<>> THEN <<>>
    ELSE Digits(Head(levels)[1], 5) \o Digits(Head(levels)[2], 7) \o Levels(Tail(levels))

\* A payload in the layout try_from_udp_payload reads: the marker, the issue
\* code at 5, the bids at 29, the asks at 96, HHMMSShh at 206 and the end
\* byte 0xFF at 214; the bytes it does not read are '0'.
QuotePayload(issue_code, bids, asks, hhmmsscc) ==
    DATA_INFO_MARKET \o issue_code \o Repeat(48, 12) \o Levels(bids)
        \o Repeat(48, 7) \o Levels(asks) \o Repeat(48, 50) \o hhmmsscc \o <<255>>

\* `bytes` with `patch` written over it from 0-based offset `at`
Splice(bytes, at, patch) ==
    [i \in 1..Len(bytes) |->
        IF i > at /\ i <= at + Len(patch) THEN patch[i - at] ELSE bytes[i]]

ISSUE_A == <<75, 82, 52, 49, 48, 49, 70, 51, 48, 48, 48, 48>>   \* "KR4101F30000"
ISSUE_B == <<75, 82, 52, 50, 48, 49, 70, 51, 48, 48, 48, 48>>   \* "KR4201F30000"
BIDS == << <<123, 500>>, <<122, 40>>, <<121, 7>>, <<120, 1>>, <<119, 9999999>> >>
ASKS == << <<124, 30>>, <<125, 2>>, <<126, 0>>, <<127, 65>>, <<99999, 8>> >>

\* 2011-02-16 00:30:03.025 UTC, which is 09:30:03.025 in Korea, and three
\* seconds and two hundredths earlier
CAPTURE_TS == [tv_day |-> 15021, tv_sod |-> 1803, tv_usec |-> 25000]
EARLY_TS == [tv_day |-> 15021, tv_sod |-> 1800, tv_usec |-> 5000]

UdpPacket(ts, udp_payload) ==
    [ts |-> ts, ethertype |-> "Ipv4", protocol |-> "Udp", udp_payload |-> udp_payload]

\* A well-formed quote captured at ts and accepted at 09:30:ss.cc Korean time
QuoteFrame(ts, issue_code, ss, cc) ==
    UdpPacket(ts,
              QuotePayload(issue_code, BIDS, ASKS,
                           <<48, 57, 51, 48>> \o Digits(ss, 2) \o Digits(cc, 2)))

\* The quotes of a capture: accept times 09:30:00.00, 00.01 (twice, for two
\* issues), 00.02 and 03.02.  MAX_DELAY lies between 00.02 and 03.02, and
\* the second quote of 00.01 was captured before its accept time.
QuoteFrames ==
    { QuoteFrame(CAPTURE_TS, ISSUE_A, 0, 0), QuoteFrame(CAPTURE_TS, ISSUE_A, 0, 1),
      QuoteFrame(EARLY_TS, ISSUE_B, 0, 1), QuoteFrame(CAPTURE_TS, ISSUE_A, 0, 2),
      QuoteFrame(CAPTURE_TS, ISSUE_A, 3, 2) }

\* Not this feed's: an ARP frame
ArpFrame ==
    [ts |-> CAPTURE_TS, ethertype |-> "Arp", protocol |-> "Truncated", udp_payload |-> <<>>]

\* This feed's, with a letter in the first bid price
BadPriceFrame ==
    UdpPacket(CAPTURE_TS,
              Splice(QuotePayload(ISSUE_A, BIDS, ASKS, <<48, 57, 51, 48, 48, 48, 48, 48>>),
                     31, <<88>>))

\* This feed's, cut after 10 bytes
ShortFrame == UdpPacket(CAPTURE_TS, DATA_INFO_MARKET \o <<75, 82, 52, 49, 48>>)

CaptureFrames == QuoteFrames \cup {ArpFrame, BadPriceFrame, ShortFrame}

\* What Capture::next_packet() may return when the packets returned so far
\* are `capture`: a packet, or an error (the end of the file, a failed read).
NextPacketResults(read) ==
    IF read # <<>> /\ read[Len(read)].tag = "Err" THEN {}
    ELSE {Err("NoMorePackets"), Err("PcapError")}
         \cup (IF Len(read) < MaxFrames THEN {Ok(f) : f \in CaptureFrames} ELSE {})


(***************************************************************************)
(* The two runs over one capture file.  The file is read by both; a packet *)
(* is chosen when the first of them gets to it.                            *)
(***************************************************************************)
\* QuotePacket::try_from_packet(packet) for the packets of a capture, by build:
\* the call of main.rs 278 and 306, evaluated once for each packet.
DecodedFrames ==
    [debug \in BOOLEAN |-> [pkt \in CaptureFrames |-> try_from_packet(debug, pkt)]]

\* The state of a run when the function is entered (main.rs 275, 303).  out
\* is what println! has written; by is history: for each line of out, the
\* number of the next_packet() call during whose turn it was written.
NewRun == [pc |-> "loop", idx |-> 0, window |-> <<>>, out |-> <<>>, by |-> <<>>]

\* capture.next_packet() for a run that has made `idx` calls: the results
\* it may get
next_packet(idx) ==
    IF idx < Len(capture) THEN {capture[idx + 1]} ELSE NextPacketResults(capture)

\* The capture once next_packet() has returned `result` to that run
Read(idx, result) ==
    IF idx < Len(capture) THEN capture ELSE Append(capture, result)

\* `printed` written by println! during the turn of call number idx
Println(run, printed, idx) ==
    [run EXCEPT !.out = @ \o printed, !.by = @ \o [i \in 1..Len(printed) |-> idx]]

\* The body of `if let Some(Ok(quote_packet))` in with_vec (main.rs 279-292)
with_vec_quote(run, quote_packet) ==
    LET n == vec_flush_point(run.window, quote_packet)
        kept == SubSeq(run.window, n + 1, Len(run.window))
    IN  [Println(run, SubSeq(run.window, 1, n), run.idx + 1)
            EXCEPT !.window = vec_insert(kept, quote_packet)]

\* The body of `if let Some(Ok(quote_packet))` in with_heap (main.rs 307-321)
with_heap_quote(run, quote_packet) ==
    LET flushed == heap_flush(run.window, <<>>, quote_packet)
    IN  [Println(run, flushed[2], run.idx + 1)
            EXCEPT !.window = heap_push(flushed[1], quote_packet)]

\* One turn of `while let Ok(packet) = capture.next_packet()` in with_vec
\* (main.rs 277-294)
with_vec_turn(run, result) ==
    IF result.tag # "Ok"
    THEN [run EXCEPT !.pc = "flush", !.idx = @ + 1]
    ELSE LET quote == DecodedFrames[debug_assertions][result.val]
         IN  IF quote.tag = "Panic"
             THEN [run EXCEPT !.pc = "panicked", !.idx = @ + 1]
             ELSE IF quote.tag = "Ok"
             THEN [with_vec_quote(run, quote.val) EXCEPT !.idx = @ + 1]
             ELSE [run EXCEPT !.idx = @ + 1]

\* Faulty variant of with_heap_turn: a packet that is not a quote ends the loop
\* (`else { break }`).
with_heap_turn_break(run, result) ==
    IF result.tag # "Ok"
    THEN [run EXCEPT !.pc = "flush", !.idx = @ + 1]
    ELSE LET quote == DecodedFrames[debug_assertions][result.val]
         IN  IF quote.tag = "Panic"
             THEN [run EXCEPT !.pc = "panicked", !.idx = @ + 1]
             ELSE IF quote.tag = "Ok"
             THEN [with_heap_quote(run, quote.val) EXCEPT !.idx = @ + 1]
             ELSE [run EXCEPT !.pc = "flush", !.idx = @ + 1]

\* One turn of the same loop in with_heap (main.rs 305-323)
with_heap_turn(run, result) ==
    IF result.tag # "Ok"
    THEN [run EXCEPT !.pc = "flush", !.idx = @ + 1]
    ELSE LET quote == DecodedFrames[debug_assertions][result.val]
         IN  IF quote.tag = "Panic"
             THEN [run EXCEPT !.pc = "panicked", !.idx = @ + 1]
             ELSE IF quote.tag = "Ok"
             THEN [with_heap_quote(run, quote.val) EXCEPT !.idx = @ + 1]
             ELSE [run EXCEPT !.idx = @ + 1]

\* `for quote_packet in &window` (main.rs 297-299): the window is printed
\* and stays as it is until the function returns
with_vec_flush(run) == [Println(run, run.window, run.idx) EXCEPT !.pc = "done"]

\* `while let Some(quote_packet) = window.pop()` (main.rs 326-328)
with_heap_flush(run) ==
    [Println(run, heap_drain(run.window), run.idx)
        EXCEPT !.pc = "done", !.window = <<>>]

Init ==
    /\ debug_assertions \in BOOLEAN
    /\ capture = <<>>
    /\ vec = NewRun
    /\ heap = NewRun
    /\ packet = ArpFrame
    /\ decoded = None

VecLoop ==
    /\ vec.pc = "loop"
    /\ \E result \in next_packet(vec.idx) :
          /\ capture' = Read(vec.idx, result)
          /\ vec' = with_vec_turn(vec, result)
    /\ UNCHANGED <<debug_assertions, heap, packet, decoded>>

VecFlush ==
    /\ vec.pc = "flush"
    /\ vec' = with_vec_flush(vec)
    /\ UNCHANGED <<debug_assertions, capture, heap, packet, decoded>>

HeapLoop ==
    /\ heap.pc = "loop"
    /\ \E result \in next_packet(heap.idx) :
          /\ capture' = Read(heap.idx, result)
          /\ heap' = with_heap_turn(heap, result)
    /\ UNCHANGED <<debug_assertions, vec, packet, decoded>>

HeapFlush ==
    /\ heap.pc = "flush"
    /\ heap' = with_heap_flush(heap)
    /\ UNCHANGED <<debug_assertions, capture, vec, packet, decoded>>

Next == VecLoop \/ VecFlush \/ HeapLoop \/ HeapFlush

Spec == Init /\ [][Next]_vars


(***************************************************************************)
(* The decoder alone: one call of try_from_packet on a packet drawn from   *)
(* DecodePackets.                                                          *)
(***************************************************************************)
\* HHMMSShh as eight digits
TimeField(hours, minutes, seconds, centis) ==
    Digits(hours, 2) \o Digits(minutes, 2) \o Digits(seconds, 2) \o Digits(centis, 2)

\* 09:30:12.34, midnight, times before 09:00 and late in the day, and an
\* hour, a minute and a second out of range
TimeFields ==
    { TimeField(9, 30, 12, 34), TimeField(0, 0, 0, 0), TimeField(8, 59, 59, 99),
      TimeField(23, 59, 59, 99), TimeField(24, 0, 0, 0), TimeField(9, 60, 0, 0),
      TimeField(9, 30, 60, 0) }

\* <<offset, bytes>> written over a well-formed payload: nothing; '+', '-',
\* ' ' and 'X' in price and quantity windows; a two-byte character and a
\* byte that is no UTF-8 in the issue code; '+' and a two-byte character,
\* aligned and not, in the accept time; an end byte that is not 0xFF; an
\* unread byte that is no UTF-8; another marker.
Patches ==
    { <<0, <<>> >>,
      <<29, <<43>> >>, <<29, <<45>> >>, <<29, <<32>> >>, <<31, <<88>> >>,
      <<34, <<43>> >>, <<40, <<32>> >>, <<155, <<88>> >>, <<96, <<195, 169>> >>,
      <<5, <<195, 169>> >>, <<5, <<255>> >>,
      <<206, <<43>> >>, <<206, <<195, 169>> >>, <<207, <<195, 169>> >>,
      <<213, <<88>> >>,
      <<214, <<48>> >>, <<17, <<255>> >>, <<4, <<53>> >> }

\* The lengths a payload is cut to
PayloadLengths == {215, 214, 213, 156, 100, 17, 16, 5, 4, 0}

\* Capture times: the usual one; one with tv_usec above a second; midnight
\* UTC of the same day (earlier than every accept time of that date except
\* those before 09:00 Korean time); one past chrono's last date.
Timestamps ==
    { CAPTURE_TS,
      [tv_day |-> 15021, tv_sod |-> 86399, tv_usec |-> 1000001],
      [tv_day |-> 15021, tv_sod |-> 0, tv_usec |-> 0],
      [tv_day |-> 100000000, tv_sod |-> 0, tv_usec |-> 0] }

DecodePayloads ==
    { SubSeq(Splice(QuotePayload(ISSUE_A, BIDS, ASKS, t), p[1], p[2]), 1, n) :
        t \in TimeFields, p \in Patches, n \in PayloadLengths }

DecodePackets ==
    { UdpPacket(ts, udp_payload) : ts \in Timestamps, udp_payload \in DecodePayloads }
    \cup { [ts |-> CAPTURE_TS, ethertype |-> e[1], protocol |-> e[2],
            udp_payload |-> udp_payload] :
             e \in { <<"Arp", "Truncated">>, <<"Truncated", "Truncated">>,
                     <<"Ipv4", "Tcp">>, <<"Ipv4", "Truncated">> },
             udp_payload \in { <<>>, QuotePayload(ISSUE_A, BIDS, ASKS,
                                                  TimeField(9, 30, 12, 34)) } }

Pending == [tag |-> "Pending", val |-> <<>>, err |-> ""]

InitDecode ==
    /\ debug_assertions \in BOOLEAN
    /\ packet \in DecodePackets
    /\ decoded = Pending
    /\ capture = <<>>
    /\ vec = NewRun
    /\ heap = NewRun

Decode ==
    /\ decoded = Pending
    /\ decoded' = try_from_packet(debug_assertions, packet)
    /\ UNCHANGED <<debug_assertions, capture, vec, heap, packet>>

SpecDecode == InitDecode /\ [][Decode]_vars


(***************************************************************************)
(* What the claims speak of.                                               *)
(***************************************************************************)
\* A result of next_packet() that a run inserts: a packet decoded to
\* Some(Ok(quote)), and that quote
IsQuote(result) ==
    result.tag = "Ok" /\ DecodedFrames[debug_assertions][result.val].tag = "Ok"

QuoteOf(result) == DecodedFrames[debug_assertions][result.val].val

\* The quotes inserted by a run that has made k calls of next_packet(), in
\* the order of their arrival
Arrived(k) ==
    LET quotes == SelectSeq(SubSeq(capture, 1, k), IsQuote)
    IN  [i \in 1..Len(quotes) |-> QuoteOf(quotes[i])]

AcceptTimes(quotes) == [i \in 1..Len(quotes) |-> quotes[i].accept_time]

\* Adjacent quotes (a, b) have a.accept_time <= b.accept_time
Ordered(quotes) ==
    \A i \in 1..(Len(quotes) - 1) :
        DtLeq(quotes[i].accept_time, quotes[i + 1].accept_time)

\* a is more than MAX_DELAY before b
BeyondDelay(a, b) == DtLess(DtAddSecs(a, MAX_DELAY), b)

\* The bounded-skew assumption: a quote that arrives after one with a later
\* accept time is at most MAX_DELAY behind it
BoundedSkew(quotes) ==
    \A i, j \in 1..Len(quotes) :
        i < j => ~BeyondDelay(quotes[j].accept_time, quotes[i].accept_time)

PairwiseDistinct(times) ==
    \A i, j \in 1..Len(times) : i # j => times[i] # times[j]

Count(x, seq) == Cardinality({i \in 1..Len(seq) : seq[i] = x})

\* The same elements, each as many times
SameMultiset(a, b) ==
    \A x \in {a[i] : i \in 1..Len(a)} \cup {b[i] : i \in 1..Len(b)} :
        Count(x, a) = Count(x, b)

\* The two runs have come equally far
InStep == vec.idx = heap.idx /\ vec.pc = heap.pc

(***************************************************************************)
(* C1. In both strategies, when the quotes arrive with bounded skew (a     *)
(* quote arriving after one with a later accept_time is at most MAX_DELAY  *)
(* behind it), the complete output of a run that has returned, final drain *)
(* included, is non-decreasing in accept_time.                             *)
(***************************************************************************)
C1_BoundedSkewGivesOrderedOutput ==
    \A run \in {vec, heap} :
        (run.pc = "done" /\ BoundedSkew(Arrived(run.idx))) => Ordered(run.out)

\* Both runs have returned; three quotes arrived out of order within the
\* skew, and some were printed before the final drain.
C1_Witness ==
    /\ vec.pc = "done" /\ heap.pc = "done"
    /\ Len(Arrived(vec.idx)) = 3
    /\ BoundedSkew(Arrived(vec.idx))
    /\ ~Ordered(Arrived(vec.idx))
    /\ \E i \in 1..Len(vec.by) : vec.by[i] < vec.idx
    /\ \E i \in 1..Len(heap.by) : heap.by[i] < heap.idx
    /\ Len(vec.out) = 3 /\ Len(heap.out) = 3

(***************************************************************************)
(* C2. As claimed: for every input, in both strategies, adjacent printed   *)
(* quotes (a, b) have a.accept_time <= b.accept_time.                      *)
(***************************************************************************)
C2_EveryInputOrdered == Ordered(vec.out) /\ Ordered(heap.out)

\* C2 as amended: at every moment of a run whose quotes have so far arrived
\* with bounded skew, adjacent printed quotes (a, b) have
\* a.accept_time <= b.accept_time.
C2_OrderedWhileSkewBounded ==
    \A run \in {vec, heap} : BoundedSkew(Arrived(run.idx)) => Ordered(run.out)

\* A run still in its loop has printed two quotes that arrived in the
\* opposite order, and holds a third.
C2_Witness ==
    \E run \in {vec, heap} :
        /\ run.pc = "loop"
        /\ BoundedSkew(Arrived(run.idx))
        /\ Len(run.out) = 2 /\ Len(run.window) = 1
        /\ DtLess(run.out[1].accept_time, run.out[2].accept_time)
        /\ Arrived(run.idx)[1] = run.out[2]

(***************************************************************************)
(* C3. As claimed: for any input, with_vec and with_heap print the same    *)
(* sequence of quotes, quote for quote, also when several quotes share an  *)
(* accept_time.                                                            *)
(***************************************************************************)
C3_SameOutput == (vec.pc = "done" /\ heap.pc = "done") => vec.out = heap.out

\* C3 as amended: for any input, the two strategies print as many quotes
\* and the same accept_time at every position of the output, whenever they
\* have come equally far; quotes that share an accept_time may be printed
\* in a different order.
C3_SameAcceptTimes == InStep => AcceptTimes(vec.out) = AcceptTimes(heap.out)

\* Both runs have returned, and their outputs differ in the order of two
\* quotes of one accept_time.
C3_Witness ==
    /\ vec.pc = "done" /\ heap.pc = "done"
    /\ Len(vec.out) = 3
    /\ vec.out # heap.out
    /\ ~PairwiseDistinct(AcceptTimes(vec.out))

(***************************************************************************)
(* C4. For any input, with_vec and with_heap print the same multiset of    *)
(* quotes, and print them in the same order when the accept_time values of *)
(* the quotes are pairwise distinct.                                       *)
(***************************************************************************)
C4_SameMultisetAndOrderIfDistinct ==
    InStep =>
        /\ SameMultiset(vec.out, heap.out)
        /\ PairwiseDistinct(AcceptTimes(Arrived(vec.idx))) => vec.out = heap.out

\* Both runs have returned after three quotes of distinct accept times that
\* arrived out of order, and after a flush.
C4_Witness ==
    /\ vec.pc = "done" /\ heap.pc = "done"
    /\ Len(Arrived(vec.idx)) = 3
    /\ PairwiseDistinct(AcceptTimes(Arrived(vec.idx)))
    /\ ~Ordered(Arrived(vec.idx))
    /\ Arrived(vec.idx) # vec.out
    /\ \E i \in 1..Len(heap.by) : heap.by[i] < heap.idx
    /\ heap.out = vec.out


\* What a step has printed: the lines of next.out after those of run.out
Printed(run, next) == SubSeq(next.out, Len(run.out) + 1, Len(next.out))

\* A step of a run in which next_packet() is called
Calls(run, next) == run.pc = "loop" /\ next.idx = run.idx + 1

(***************************************************************************)
(* C5. As claimed: in both strategies, when the run terminates, by         *)
(* returning or by a panic, the multiset of printed quotes is the multiset *)
(* of the quotes decoded to Some(Ok(quote)): none is lost, none is printed *)
(* twice, none stays in the window unprinted.                              *)
(***************************************************************************)
C5_EveryDecodedQuotePrintedOnce ==
    \A run \in {vec, heap} :
        run.pc \in {"done", "panicked"} => SameMultiset(run.out, Arrived(run.idx))

\* C5 for the runs that return: it holds of them.
C5_ReturnedRunPrintedEveryQuoteOnce ==
    \A run \in {vec, heap} :
        run.pc = "done" => SameMultiset(run.out, Arrived(run.idx))

(***************************************************************************)
(* C6. In both strategies, when next_packet() reports the end of the file  *)
(* or a failed read the loop is left at once; the run calls next_packet()  *)
(* no more, and its only step left prints the quotes of the window, all of *)
(* them, in ascending accept_time order; then it has returned.             *)
(***************************************************************************)
C6_Step(run, next) ==
    /\ (Calls(run, next) /\ capture'[next.idx].tag = "Err")
          => next = [run EXCEPT !.pc = "flush", !.idx = @ + 1]
    /\ (run.pc = "flush" /\ next # run)
          => /\ next.pc = "done"
             /\ next.idx = run.idx
             /\ next.out = run.out \o Printed(run, next)
             /\ SameMultiset(Printed(run, next), run.window)
             /\ Ordered(Printed(run, next))
    /\ run.pc = "done" => next = run

C6_ReadFailureEndsIngestionAndDrains == [][C6_Step(vec, vec') /\ C6_Step(heap, heap')]_vars

\* Both runs have returned after a failed read; three quotes that arrived
\* out of order were all printed by the final loops.
C6_Witness ==
    /\ vec.pc = "done" /\ heap.pc = "done"
    /\ capture[vec.idx] = Err("PcapError")
    /\ Len(Arrived(vec.idx)) = 3
    /\ ~Ordered(Arrived(vec.idx))
    /\ \A i \in 1..3 : vec.by[i] = vec.idx /\ heap.by[i] = heap.idx
    /\ Len(vec.out) = 3 /\ Len(heap.out) = 3

(***************************************************************************)
(* C7. The flush predicate is strict in both strategies: the insertion of  *)
(* a quote q keeps in the window, unprinted, a quote e with                *)
(* e.accept_time + MAX_DELAY = q.accept_time, and prints and removes a     *)
(* quote e with e.accept_time + MAX_DELAY < q.accept_time.                 *)
(***************************************************************************)
C7_Step(run, next) ==
    (Calls(run, next) /\ IsQuote(capture'[next.idx])) =>
        LET q == QuoteOf(capture'[next.idx])
        IN  \A i \in 1..Len(run.window) :
                LET e == run.window[i]
                IN  /\ DtAddSecs(e.accept_time, MAX_DELAY) = q.accept_time
                          => /\ Count(e, Printed(run, next)) = 0
                             /\ Count(e, next.window) = Count(e, run.window)
                    /\ BeyondDelay(e.accept_time, q.accept_time)
                          => /\ Count(e, Printed(run, next)) = Count(e, run.window)
                             /\ Count(e, next.window) = 0

C7_FlushPredicateStrict == [][C7_Step(vec, vec') /\ C7_Step(heap, heap')]_vars

\* In both runs the third quote, q, has just been inserted: the window
\* holds q and a quote exactly MAX_DELAY before it, and the quote one
\* hundredth of a second earlier than that has been printed by the
\* insertion.
C7_Witness ==
    \A run \in {vec, heap} :
        /\ run.pc = "loop" /\ run.idx = 3 /\ IsQuote(capture[3])
        /\ Len(run.window) = 2 /\ run.by = <<3>>
        /\ LET q == QuoteOf(capture[3])
               at == DtAddSecs(run.out[1].accept_time, MAX_DELAY)
           IN  /\ \E i \in 1..2 :
                     DtAddSecs(run.window[i].accept_time, MAX_DELAY) = q.accept_time
               /\ at.date = q.accept_time.date /\ at.secs = q.accept_time.secs
               /\ at.micros + 10000 = q.accept_time.micros

(***************************************************************************)
(* C8. Bounded-delay correctness, in both strategies: when a quote e was   *)
(* printed by the flush of the insertion of q, every quote r inserted      *)
(* after q and within the window of q (r.accept_time >= q.accept_time -    *)
(* MAX_DELAY) has r.accept_time >= e.accept_time.                          *)
(***************************************************************************)
C8_FlushedQuoteNotSuperseded ==
    \A run \in {vec, heap} :
        \A i \in 1..Len(run.out) :
            LET j == run.by[i]
            IN  IsQuote(capture[j]) =>
                    \A k \in (j + 1)..run.idx :
                        (/\ IsQuote(capture[k])
                         /\ ~BeyondDelay(QuoteOf(capture[k]).accept_time,
                                         QuoteOf(capture[j]).accept_time))
                            => DtLeq(run.out[i].accept_time,
                                     QuoteOf(capture[k]).accept_time)

\* In both runs the first quote was printed by the insertion of the second,
\* and the third, inserted afterwards, is earlier than the second and
\* within its window.
C8_Witness ==
    \A run \in {vec, heap} :
        /\ run.idx = 3 /\ run.by = <<2>>
        /\ IsQuote(capture[2]) /\ IsQuote(capture[3])
        /\ run.out[1] = QuoteOf(capture[1])
        /\ DtLess(QuoteOf(capture[3]).accept_time, QuoteOf(capture[2]).accept_time)
        /\ ~BeyondDelay(QuoteOf(capture[3]).accept_time, QuoteOf(capture[2]).accept_time)

(***************************************************************************)
(* C9. In both strategies, a turn of the loop for a packet that decodes to *)
(* None or to Some(Err(..)) prints nothing and leaves the window as it is, *)
(* and the run stays in its loop.                                          *)
(***************************************************************************)
C9_Step(run, next) ==
    (/\ Calls(run, next)
     /\ capture'[next.idx].tag = "Ok"
     /\ DecodedFrames[debug_assertions][capture'[next.idx].val].tag \in {"None", "Err"})
        => next = [run EXCEPT !.idx = @ + 1]

C9_SkippedFrameChangesNothing == [][C9_Step(vec, vec') /\ C9_Step(heap, heap')]_vars

\* Both runs hold a quote, have then read a packet that decodes to None and
\* one that decodes to an error, and are still in their loops.
C9_Witness ==
    /\ Len(capture) = 3 /\ IsQuote(capture[1])
    /\ capture[2].tag = "Ok" /\ capture[3].tag = "Ok"
    /\ {DecodedFrames[debug_assertions][capture[k].val].tag : k \in {2, 3}}
          = {"None", "Err"}
    /\ \A run \in {vec, heap} :
          run.pc = "loop" /\ run.idx = 3 /\ run.out = <<>> /\ Len(run.window) = 1

(***************************************************************************)
(* C10. As claimed: for a packet whose UDP payload begins with B6034,      *)
(* whatever its length and content, try_from_packet returns Some(Ok(..))   *)
(* or Some(Err(..)), never None and never a panic; it returns Some(Err(..))*)
(* when the capture time is unrepresentable, when a field is not UTF-8 or  *)
(* not a number, and when the accept time is no time of day.               *)
(***************************************************************************)
Marked(pkt) ==
    /\ pkt.ethertype = "Ipv4" /\ pkt.protocol = "Udp"
    /\ Len(pkt.udp_payload) >= 5
    /\ SubSeq(pkt.udp_payload, 1, 5) = DATA_INFO_MARKET

\* One of the failures the claim names
MustFail(pkt) ==
    \/ from_timestamp_micros(pkt.ts).tag # "Ok"
    \/ issue_code_of(pkt.udp_payload).tag = "Err"
    \/ \E k \in 1..20 :
          parse(pkt.udp_payload, FIELD_WINDOWS[k][1], FIELD_WINDOWS[k][2]).tag = "Err"
    \/ /\ from_timestamp_micros(pkt.ts).tag = "Ok"
       /\ accept_time_of(from_timestamp_micros(pkt.ts).val, pkt.udp_payload).tag = "Err"

C10_MarkedFrameDecodesOrFails ==
    (decoded # Pending /\ Marked(packet)) =>
        /\ decoded.tag \in {"Ok", "Err"}
        /\ MustFail(packet) => decoded.tag = "Err"


(***************************************************************************)
(* C11. As claimed: for a frame that is not IPv4, that does not carry UDP, *)
(* or whose UDP payload, of any length, does not begin with B6034,         *)
(* try_from_packet returns None: no error, no panic.                       *)
(***************************************************************************)
C11_UnmarkedFrameGivesNone ==
    (decoded # Pending /\ ~Marked(packet)) => decoded = None

\* C11 for the frames whose UDP payload holds five bytes or more, and for
\* those that are not IPv4 or carry no UDP: it holds of them.
C11_UnmarkedFrameOfFiveBytesGivesNone ==
    (/\ decoded # Pending
     /\ ~Marked(packet)
     /\ (packet.ethertype = "Ipv4" /\ packet.protocol = "Udp")
            => Len(packet.udp_payload) >= 5)
        => decoded = None

(***************************************************************************)
(* C12. As claimed: a marked payload of full length in which one of the    *)
(* ten price windows or ten quantity windows holds a character that is not *)
(* a digit 0-9, at any position, the first included, decodes to an error   *)
(* and never to a quote.                                                   *)
(***************************************************************************)
\* The payload has the 215 bytes of the layout and some price or quantity
\* window of it holds a byte that is no digit
WindowByte(udp_payload, k, i) == udp_payload[FIELD_WINDOWS[k][1] + i]

HasNonDigit(udp_payload, positions) ==
    /\ Len(udp_payload) = 215
    /\ \E k \in 1..20 :
          \E i \in positions \cap (1..FIELD_WINDOWS[k][2]) :
              ~IsDigit(WindowByte(udp_payload, k, i))

C12_NonDigitFieldIsError ==
    (decoded # Pending /\ Marked(packet) /\ HasNonDigit(packet.udp_payload, 1..7))
        => decoded.tag = "Err"

\* C12 for a character that is not a digit after the first position of its
\* window, in a payload that ends with 0xFF: it holds of them.
C12_NonDigitAfterFirstIsError ==
    (/\ decoded # Pending
     /\ Marked(packet)
     /\ HasNonDigit(packet.udp_payload, 2..7)
     /\ packet.udp_payload[215] = 255)
        => decoded.tag = "Err"

(***************************************************************************)
(* C13. For every successfully decoded quote whose field at offset 206 is  *)
(* eight digits HHMMSShh, accept_time is the calendar date of packet_time  *)
(* at HH:MM:SS.hh, hh in hundredths of a second, taken at UTC+9 and        *)
(* converted to UTC: that date at HH:MM:SS.hh minus 9 hours, with no       *)
(* correction of the day.  The field "09301234" gives the capture date at  *)
(* 09:30:12.340 UTC+9, which is 00:30:12.340 UTC.                          *)
(***************************************************************************)
\* The seconds from 1970-01-01 00:00:00 UTC to a DateTime
EpochSecs(dt) == dt.date * 86400 + dt.secs

\* The two digits of `field` from 0-based offset `at`, as a number
TwoDigits(field, at) == (field[at + 1] - 48) * 10 + (field[at + 2] - 48)

C13_AcceptTimeIsCaptureDateAtKoreanTime ==
    (/\ decoded.tag = "Ok"
     /\ \A i \in 207..214 : IsDigit(packet.udp_payload[i]))
        => LET field == SubSeq(packet.udp_payload, 207, 214)
               quote == decoded.val
               local == TwoDigits(field, 0) * 3600 + TwoDigits(field, 2) * 60
                            + TwoDigits(field, 4)
           IN  /\ quote.accept_time.secs \in 0..86399
               /\ EpochSecs(quote.accept_time)
                     = quote.packet_time.date * 86400 + local - 9 * 3600
               /\ quote.accept_time.micros = TwoDigits(field, 6) * 10000
               /\ (field = TimeField(9, 30, 12, 34) /\ packet.ts = CAPTURE_TS)
                     => quote.accept_time = DateTime(15021, 1812, 340000)

\* A quote accepted at 08:59:59.99 Korean time has been decoded: its
\* accept_time is 23:59:59.99 UTC of the day before the capture date.
C13_Witness ==
    /\ decoded.tag = "Ok"
    /\ SubSeq(packet.udp_payload, 207, 214) = TimeField(8, 59, 59, 99)
    /\ decoded.val.accept_time
          = DateTime(decoded.val.packet_time.date - 1, 86399, 990000)

(***************************************************************************)
(* C14. As claimed: a marked frame whose fields all parse but whose        *)
(* accept_time is not earlier than its packet_time is not fatal: it        *)
(* decodes to Ok(quote), the run does not abort on it, and the quote is    *)
(* inserted and printed like any other.                                    *)
(***************************************************************************)
\* The fields of pkt all parse (the decoder without its assertions returns
\* a quote) and the accept_time they give is not earlier than packet_time
AcceptedLate(pkt) ==
    LET quote == DecodedFrames[FALSE][pkt]
    IN  quote.tag = "Ok" /\ ~DtLess(quote.val.accept_time, quote.val.packet_time)

\* Every such frame a run has read was decoded to a quote, did not end the
\* run, and its quote is in the window or printed
LateAcceptTimeHandled(run) ==
    \A k \in 1..run.idx :
        (capture[k].tag = "Ok" /\ AcceptedLate(capture[k].val))
            => /\ IsQuote(capture[k])
               /\ ~(run.pc = "panicked" /\ k = run.idx)
               /\ Count(QuoteOf(capture[k]), run.out \o run.window) >= 1

C14_LateAcceptTimeNotFatal ==
    LateAcceptTimeHandled(vec) /\ LateAcceptTimeHandled(heap)

\* C14 for a release build, where debug_assert! is compiled out: it holds.
C14_LateAcceptTimeNotFatalInRelease ==
    ~debug_assertions => (LateAcceptTimeHandled(vec) /\ LateAcceptTimeHandled(heap))

(***************************************************************************)
(* C15. In both strategies the insertion of a quote q prints, in ascending *)
(* accept_time order and before q enters the window, exactly the buffered  *)
(* quotes e with e.accept_time + MAX_DELAY < q.accept_time and keeps all   *)
(* the others; so after the insertion every buffered quote e has           *)
(* e.accept_time + MAX_DELAY >= q.accept_time.                             *)
(***************************************************************************)
Elements(seq) == {seq[i] : i \in 1..Len(seq)}

C15_Step(run, next) ==
    (Calls(run, next) /\ IsQuote(capture'[next.idx])) =>
        LET q == QuoteOf(capture'[next.idx])
            printed == Printed(run, next)
            Old(e) == BeyondDelay(e.accept_time, q.accept_time)
        IN  /\ Ordered(printed)
            /\ \A e \in Elements(printed) : Old(e)
            /\ \A e \in Elements(run.window) :
                  Count(e, printed) = IF Old(e) THEN Count(e, run.window) ELSE 0
            /\ \A e \in Elements(run.window) \cup {q} :
                  Count(e, next.window)
                     = (IF Old(e) THEN 0 ELSE Count(e, run.window))
                          + (IF e = q THEN 1 ELSE 0)
            /\ Len(next.window) = Len(run.window) - Len(printed) + 1
            /\ \A e \in Elements(next.window) : ~Old(e)

C15_InsertionFlushesExactlyTheOld == [][C15_Step(vec, vec') /\ C15_Step(heap, heap')]_vars

\* In both runs the insertion of the third quote has printed the first two,
\* the later arrival first, and the window holds the third alone.
C15_Witness ==
    \A run \in {vec, heap} :
        /\ run.pc = "loop" /\ run.idx = 3 /\ Len(Arrived(3)) = 3
        /\ run.by = <<3, 3>>
        /\ run.out = <<Arrived(3)[2], Arrived(3)[1]>>
        /\ DtLess(run.out[1].accept_time, run.out[2].accept_time)
        /\ run.window = <<Arrived(3)[3]>>

(***************************************************************************)
(* C16. In with_vec the window is sorted ascending by accept_time in every *)
(* reachable state, for any input, also one that violates the bounded-skew *)
(* assumption: adjacent entries have window[i].accept_time <=              *)
(* window[i+1].accept_time, so that both partition_point searches run on a *)
(* sequence partitioned by their predicate, whatever quote comes next.     *)
(***************************************************************************)
\* The quotes a packet of a capture can decode to
Quotes ==
    { DecodedFrames[debug_assertions][f].val :
        f \in {g \in CaptureFrames : DecodedFrames[debug_assertions][g].tag = "Ok"} }

C16_VecWindowSorted ==
    /\ Ordered(vec.window)
    /\ \A quote_packet \in Quotes :
          \A i, j \in 1..Len(vec.window) :
              i < j =>
                 /\ vec_is_old(vec.window[j], quote_packet)
                       => vec_is_old(vec.window[i], quote_packet)
                 /\ vec_is_before(vec.window[j], quote_packet)
                       => vec_is_before(vec.window[i], quote_packet)

\* Three quotes have arrived out of order and beyond the bounded skew, and
\* the window holds all three.
C16_Witness ==
    /\ vec.pc = "loop" /\ vec.idx = 3
    /\ Len(vec.window) = 3
    /\ ~BoundedSkew(Arrived(3))
    /\ ~Ordered(Arrived(3))
    /\ DtLess(vec.window[1].accept_time, vec.window[3].accept_time)

(***************************************************************************)
(* C17. with_vec is stable: two quotes of equal accept_time are printed in *)
(* the order in which they were inserted, for every input, whether a flush *)
(* or the final loop prints them.                                          *)
(***************************************************************************)
\* The quotes of accept_time t, in the order they have in `quotes`
Tied(quotes, t) == SelectSeq(quotes, LAMBDA quote : quote.accept_time = t)

\* What with_vec has printed followed by what it is still to print, in the
\* order of printing (the final loop prints the window from its first entry)
VecEmission == IF vec.pc = "done" THEN vec.out ELSE vec.out \o vec.window

C17_VecStable ==
    \A t \in Elements(AcceptTimes(Arrived(vec.idx))) :
        Tied(VecEmission, t) = Tied(Arrived(vec.idx), t)

\* with_vec has returned; two different quotes of one accept_time were
\* printed by a flush, in the order in which they had arrived.
C17_Witness ==
    /\ vec.pc = "done"
    /\ \E i \in 1..(Len(vec.out) - 1) :
          /\ vec.out[i].accept_time = vec.out[i + 1].accept_time
          /\ vec.out[i] # vec.out[i + 1]
          /\ vec.by[i] < vec.idx /\ vec.by[i + 1] < vec.idx
          /\ \E j, k \in 1..Len(Arrived(vec.idx)) :
                j < k /\ Arrived(vec.idx)[j] = vec.out[i]
                      /\ Arrived(vec.idx)[k] = vec.out[i + 1]

(***************************************************************************)
(* C18. In both strategies and for any input, a quote is printed only      *)
(* while it has the least accept_time of all the quotes in the window at   *)
(* that moment: no buffered quote of a strictly smaller accept_time is     *)
(* left behind.  In with_heap this rests on the reversed order of          *)
(* OrdQuotePacket, which makes peek and pop return the least accept_time.  *)
(***************************************************************************)
C18_Step(run, next) ==
    LET printed == Printed(run, next)
        left == {e \in Elements(run.window) : Count(e, printed) < Count(e, run.window)}
    IN  /\ \A p \in Elements(printed) : Count(p, printed) <= Count(p, run.window)
        /\ Ordered(printed)
        /\ \A p \in Elements(printed) :
              \A e \in left : DtLeq(p.accept_time, e.accept_time)

C18_PrintedQuoteIsLeastOfWindow == [][C18_Step(vec, vec') /\ C18_Step(heap, heap')]_vars

\* Both runs have returned after three quotes that arrived beyond the
\* bounded skew: the first was printed by a flush, the third is earlier
\* than it and was printed after it.
C18_Witness ==
    \A run \in {vec, heap} :
        /\ run.pc = "done" /\ Len(run.out) = 3
        /\ ~BoundedSkew(Arrived(run.idx))
        /\ run.by[1] < run.idx
        /\ DtLess(run.out[2].accept_time, run.out[1].accept_time)

(***************************************************************************)
(* C19. When the quotes have arrived with bounded skew, after every        *)
(* insertion in either strategy all the buffered quotes lie within         *)
(* MAX_DELAY of the largest accept_time inserted so far: for every         *)
(* buffered e, maxInserted - e.accept_time <= MAX_DELAY.                   *)
(***************************************************************************)
C19_BufferedWithinDelayOfLatest ==
    \A run \in {vec, heap} :
        BoundedSkew(Arrived(run.idx)) =>
            \A e \in Elements(run.window) :
                \A inserted \in Elements(Arrived(run.idx)) :
                    ~BeyondDelay(e.accept_time, inserted.accept_time)

\* In both runs three quotes have arrived with bounded skew, the latest of
\* them first; the window holds all three, one of them exactly MAX_DELAY
\* before the latest.
C19_Witness ==
    \A run \in {vec, heap} :
        /\ run.pc = "loop" /\ run.idx = 3
        /\ Len(run.window) = 3 /\ Len(Arrived(3)) = 3
        /\ BoundedSkew(Arrived(3))
        /\ DtLess(Arrived(3)[3].accept_time, Arrived(3)[1].accept_time)
        /\ \E e \in Elements(run.window) :
              DtAddSecs(e.accept_time, MAX_DELAY) = Arrived(3)[1].accept_time

=============================================================================
